---- MODULE Spec2Model ----
(***************************************************************************)
(* Model of the scheduling back end sketched in the implementation plan    *)
(* (src/unnamed/part_001): the Google Calendar free-slot inversion         *)
(* (CalculateFreeSlots), the availability aggregation                      *)
(* (buildAvailabilityMatrix) and the suggestion service                    *)
(* (GenerateSuggestions) with its ranking provider and its repository.     *)
(*                                                                         *)
(* The specifications share the variables:                                 *)
(*   SpecFree    inputs of CalculateFreeSlots drawn in Init, one call      *)
(*   SpecMatrix  availability records drawn in Init, one matrix build      *)
(*   SpecGen     two callers of GenerateSuggestions for the same meeting,  *)
(*               interleaved at the repository and provider calls          *)
(*   SpecGenSingle  one caller of GenerateSuggestions                      *)
(*   SpecEngine  the ranking engine the design describes (sections 4.2 to  *)
(*               4.5 of the design), run on the inputs of its example      *)
(*   SpecLiff    one run of LiffProvider's initLiff                        *)
(*   SpecLiffFair   the same run when every pending promise settles        *)
(*   SpecSubmit  the home page and the create-meeting form up to the       *)
(*               createMeeting mutation (src/src/app/create/page.tsx)      *)
(*   SpecDuration   the duration field of the create-meeting form          *)
(*   SpecRange   the date range of the create-meeting form                 *)
(*   SpecSlots   the time slots of the create-meeting form and their       *)
(*               edit modal                                                *)
(* A specification keeps the variables of the others at their idle value.  *)
(***************************************************************************)
EXTENDS Integers, Sequences, FiniteSets, TLC

VARIABLES
    busySlots,      \* CalculateFreeSlots: the busySlots argument
    startDate,      \* CalculateFreeSlots: the startDate argument (a date)
    endDate,        \* CalculateFreeSlots: the endDate argument (a date)
    freeSlots,      \* CalculateFreeSlots: the returned slice
    freePc,         \* "idle" | "ready" | "returned"
    availabilities, \* rows of the availabilities table for the meeting
    matrix,         \* buildAvailabilityMatrix: DateSlots, key -> count
    matrixPc,       \* "idle" | "ready" | "built"
    mtg,            \* the meeting row read by GenerateSuggestions
    stored,         \* rows of suggested_slots for the meeting, in insert order
    pc,             \* per caller: position inside GenerateSuggestions
    suggestions,    \* per caller: what RankTimeSlots returned
    timeSlots,      \* per caller: the timeSlots slice built and returned
    err,            \* per caller: the returned error ("nil" when none)
    engInput,       \* ranking engine of the design: the example's inputs
    engPc,          \* "idle" | "input" | "candidates" | "scored" | "ranked"
    engCandidates,  \* ranking engine: the candidate slots, then scored
    engRanked,      \* ranking engine: the ranked suggestions returned
    liffEnv,        \* what LiffProvider's initLiff finds around it
    liffPc,         \* position inside initLiff
    user,           \* LiffProvider: user state
    isInitialized,  \* LiffProvider: isInitialized state
    isInClient,     \* LiffProvider: isInClient state
    page,           \* the page shown: "idle" | "home" | "create"
    urlParams,      \* home page: searchParams (groupId, action)
    homeEffectRan,  \* home page: the effect gated on isInitialized has run
    homeGroupId,    \* home page: groupId state
    groupId,        \* create page: searchParams.get("groupId")
    title,          \* create page: title state
    durationMinutes,   \* create page: durationMinutes state
    selectedDays,   \* create page: selectedDays state
    currentMonth,   \* create page: currentMonth state (a month)
    dateRangeStart, \* create page: dateRangeStart state
    dateRangeEnd,   \* create page: dateRangeEnd state
    slotList,       \* create page: timeSlots state
    selectedTimeSlots, \* create page: selectedTimeSlots state
    editingSlotIdx, \* create page: editingSlotIdx state
    editWheels,     \* create page: editStartH, editStartM, editEndH, editEndM
    validationError,   \* create page: validationError state
    mutationStatus, \* createMeeting: status of the mutation
    inFlight,       \* POST /meetings requests not yet settled
    sent,           \* createMeeting.mutate calls so far
    lastRequest,    \* the data of the latest createMeeting.mutate call
    formEvent       \* the handler of the create page that ran last

vars == <<busySlots, startDate, endDate, freeSlots, freePc,
          availabilities, matrix, matrixPc,
          mtg, stored, pc, suggestions, timeSlots, err,
          engInput, engPc, engCandidates, engRanked,
          liffEnv, liffPc, user, isInitialized, isInClient,
          page, urlParams, homeEffectRan, homeGroupId, groupId, title,
          durationMinutes, selectedDays, currentMonth, dateRangeStart,
          dateRangeEnd, slotList, selectedTimeSlots, editingSlotIdx,
          editWheels, validationError, mutationStatus, inFlight, sent,
          lastRequest, formEvent>>

freeVars == <<busySlots, startDate, endDate, freeSlots, freePc>>
matrixVars == <<matrix, matrixPc>>
genVars == <<mtg, stored, pc, suggestions, timeSlots, err>>
engVars == <<engInput, engPc, engCandidates, engRanked>>
liffVars == <<liffEnv, liffPc, user, isInitialized, isInClient>>
navVars == <<page, urlParams, homeEffectRan, homeGroupId, groupId>>
fieldVars == <<title, durationMinutes, selectedDays>>
rangeVars == <<currentMonth, dateRangeStart, dateRangeEnd>>
slotVars == <<slotList, selectedTimeSlots, editingSlotIdx, editWheels>>
submitVars == <<validationError, mutationStatus, inFlight, sent, lastRequest>>
formVars == <<navVars, fieldVars, rangeVars, slotVars, submitVars, formEvent>>

(***************************************************************************)
(* Bounds of the model                                                     *)
(***************************************************************************)
MaxBusy == 2        \* busy intervals handed to CalculateFreeSlots
MaxDay == 2         \* dates 0..MaxDay, all inside one month
MaxAvail == 2       \* rows of the availabilities table
MaxSuggestions == 2 \* suggestions in one answer of the ranking provider

(***************************************************************************)
(* Time.  CalculateFreeSlots works on instants; the model counts them in   *)
(* hours since midnight of date 0, so an instant t lies on date            *)
(* t \div HoursPerDay and the half-open hour [t, t+1) is the unit of time. *)
(***************************************************************************)
HoursPerDay == 24
WorkingHoursStart == 8
WorkingHoursEnd == 22

Dates == 0..MaxDay
BusyHours == {6, 9, 12, 23}
BusyInstants == {d * HoursPerDay + h : d \in Dates, h \in BusyHours}

\* time.Time.Day() of an instant (the dates of the model share one month)
Day(t) == t \div HoursPerDay

\* time.Date(d.Year(), d.Month(), d.Day(), hour, 0, 0, 0, d.Location())
DateAt(d, hour) == d * HoursPerDay + hour

BusySlot == [Start : BusyInstants, End : BusyInstants]
BusySlotValues == {b \in BusySlot : b.Start < b.End}

SeqsUpTo(S, n) == UNION {[1..k -> S] : k \in 0..n}

(***************************************************************************)
(* CalculateFreeSlots                                                      *)
(***************************************************************************)
\* the inner loop over busySlots for the date d: the pair of the appended
\* free slots and the final currentStart
RECURSIVE InvertBusy(_, _, _, _, _)
InvertBusy(d, busy, i, currentStart, acc) ==
    IF i > Len(busy) THEN <<acc, currentStart>>
    ELSE LET b == busy[i] IN
         IF Day(b.Start) # d
         THEN InvertBusy(d, busy, i + 1, currentStart, acc)
         ELSE LET acc1 == IF currentStart < b.Start
                          THEN Append(acc, [Date |-> d,
                                            StartTime |-> currentStart,
                                            EndTime |-> b.Start])
                          ELSE acc
                  cur1 == IF b.End > currentStart THEN b.End ELSE currentStart
              IN InvertBusy(d, busy, i + 1, cur1, acc1)

\* one iteration of the loop over the days
FreeSlotsOfDay(busy, d, whStart, whEnd) ==
    LET dayStart == DateAt(d, whStart)
        dayEnd == DateAt(d, whEnd)
        r == InvertBusy(d, busy, 1, dayStart, <<>>)
    IN IF r[2] < dayEnd
       THEN Append(r[1], [Date |-> d, StartTime |-> r[2], EndTime |-> dayEnd])
       ELSE r[1]

\* for d := startDate; d.Before(endDate); d = d.AddDate(0, 0, 1)
RECURSIVE DayLoop(_, _, _, _, _)
DayLoop(busy, d, last, whStart, whEnd) ==
    IF ~(d < last) THEN <<>>
    ELSE FreeSlotsOfDay(busy, d, whStart, whEnd)
         \o DayLoop(busy, d + 1, last, whStart, whEnd)

CalculateFreeSlots(busy, first, last, whStart, whEnd) ==
    DayLoop(busy, first, last, whStart, whEnd)

\* the dates the loop of CalculateFreeSlots visits
LoopDates(first, last) == {d \in Dates : first <= d /\ d < last}

(***************************************************************************)
(* Idle values of the variables a specification does not use               *)
(***************************************************************************)
FreeIdle ==
    /\ busySlots = <<>>
    /\ startDate = 0
    /\ endDate = 0
    /\ freeSlots = <<>>
    /\ freePc = "idle"

MatrixIdle ==
    /\ matrix = <<>>
    /\ matrixPc = "idle"

GenIdle ==
    /\ mtg = [DurationMinutes |-> 0, Invitees |-> 0]
    /\ stored = <<>>
    /\ pc = <<>>
    /\ suggestions = <<>>
    /\ timeSlots = <<>>
    /\ err = <<>>

EngIdle ==
    /\ engInput = <<>>
    /\ engPc = "idle"
    /\ engCandidates = <<>>
    /\ engRanked = <<>>

LiffIdle ==
    /\ liffEnv = <<>>
    /\ liffPc = "idle"
    /\ user = "null"
    /\ isInitialized = FALSE
    /\ isInClient = FALSE

\* null in a state that otherwise holds an index or a Date
NullIdx == -1
NullDate == -1

FormIdle ==
    /\ page = "idle"
    /\ urlParams = <<>>
    /\ homeEffectRan = FALSE
    /\ homeGroupId = "null"
    /\ groupId = "null"
    /\ title = ""
    /\ durationMinutes = 0
    /\ selectedDays = {}
    /\ currentMonth = 0
    /\ dateRangeStart = NullDate
    /\ dateRangeEnd = NullDate
    /\ slotList = <<>>
    /\ selectedTimeSlots = <<>>
    /\ editingSlotIdx = NullIdx
    /\ editWheels = <<>>
    /\ validationError = "null"
    /\ mutationStatus = "idle"
    /\ inFlight = 0
    /\ sent = 0
    /\ lastRequest = <<>>
    /\ formEvent = "none"

(***************************************************************************)
(* SpecFree: one call of CalculateFreeSlots on inputs drawn in Init        *)
(***************************************************************************)
InitFree ==
    /\ busySlots \in SeqsUpTo(BusySlotValues, MaxBusy)
    /\ startDate \in Dates
    /\ endDate \in Dates
    /\ startDate <= endDate
    /\ freeSlots = <<>>
    /\ freePc = "ready"
    /\ availabilities = <<>>
    /\ MatrixIdle
    /\ GenIdle
    /\ EngIdle
    /\ LiffIdle
    /\ FormIdle

CallCalculateFreeSlots ==
    /\ freePc = "ready"
    /\ freeSlots' = CalculateFreeSlots(busySlots, startDate, endDate,
                                       WorkingHoursStart, WorkingHoursEnd)
    /\ freePc' = "returned"
    /\ UNCHANGED <<busySlots, startDate, endDate, availabilities,
                   matrixVars, genVars, engVars, liffVars, formVars>>

NextFree == CallCalculateFreeSlots

SpecFree == InitFree /\ [][NextFree]_vars

(***************************************************************************)
(* Reading the result of CalculateFreeSlots                                *)
(***************************************************************************)
\* the hours of the working bounds of date d
BoundHours(d) == DateAt(d, WorkingHoursStart)..(DateAt(d, WorkingHoursEnd) - 1)

\* the hour [t, t+1) lies inside the interval [s, e)
Inside(t, s, e) == s <= t /\ t < e

FreeAt(t, d) == {i \in 1..Len(freeSlots) :
                    /\ freeSlots[i].Date = d
                    /\ Inside(t, freeSlots[i].StartTime, freeSlots[i].EndTime)}

BusyAt(t) == {i \in 1..Len(busySlots) :
                    Inside(t, busySlots[i].Start, busySlots[i].End)}

\* C1: for every set of busy intervals, in any order, overlapping or not,
\* starting on an earlier date or straddling a bound, on every day the loop
\* computes: the free intervals together with the busy intervals cover every
\* instant of the working bounds, no free interval overlaps a busy interval
\* and no two free intervals overlap.
C1_InversionPartitionsBounds ==
    freePc = "returned" =>
        \A d \in LoopDates(startDate, endDate) :
            /\ \A t \in BoundHours(d) :
                   /\ FreeAt(t, d) # {} \/ BusyAt(t) # {}
                   /\ ~(FreeAt(t, d) # {} /\ BusyAt(t) # {})
            /\ \A t \in 0..((MaxDay + 1) * HoursPerDay) :
                   /\ Cardinality(FreeAt(t, d)) <= 1
                   /\ ~(FreeAt(t, d) # {} /\ BusyAt(t) # {})

(***************************************************************************)
(* buildAvailabilityMatrix                                                 *)
(*                                                                         *)
(* An availability row carries a date and two times of day (TIME columns), *)
(* counted here in seconds since midnight.  Format("15:04") keeps the hour *)
(* and the minute and drops the seconds: the text "HH:MM" is modelled by   *)
(* the minute of the day it denotes.  Format("2006-01-02") of a DATE is    *)
(* one-to-one, so the date key is the date.                                *)
(***************************************************************************)
SecondsPerMinute == 60

Invitees == {"A", "B"}
AvailTimes == {43200, 43230, 46800, 50400}  \* 12:00:00 12:00:30 13:00 14:00

\* availabilities.source
Sources == {"manual", "google_calendar"}

Availability == [InviteeID : Invitees, Date : Dates,
                 StartTime : AvailTimes, EndTime : AvailTimes,
                 Source : Sources]
\* CONSTRAINT valid_time_range CHECK (end_time > start_time)
AvailabilityValues == {a \in Availability : a.EndTime > a.StartTime}

\* t.Format("15:04")
Format1504(t) == t \div SecondsPerMinute

\* fmt.Sprintf("%s-%s", avail.StartTime.Format("15:04"), avail.EndTime.Format("15:04"))
TimeKey(avail) == <<Format1504(avail.StartTime), Format1504(avail.EndTime)>>

\* matrix.DateSlots[dateKey][timeKey], 0 for a key that is absent
MatrixKey(avail) == <<avail.Date, TimeKey(avail)>>

RECURSIVE BuildLoop(_, _, _)
BuildLoop(avails, i, m) ==
    IF i > Len(avails) THEN m
    ELSE LET k == MatrixKey(avails[i])
             m1 == IF k \in DOMAIN m
                   THEN [m EXCEPT ![k] = @ + 1]
                   ELSE [x \in DOMAIN m \cup {k} |->
                            IF x = k THEN 1 ELSE m[x]]
         IN BuildLoop(avails, i + 1, m1)

buildAvailabilityMatrix(avails) == BuildLoop(avails, 1, <<>>)

(***************************************************************************)
(* SpecMatrix: one matrix build over availability rows drawn in Init       *)
(***************************************************************************)
InitMatrix ==
    /\ availabilities \in SeqsUpTo(AvailabilityValues, MaxAvail)
    /\ matrix = <<>>
    /\ matrixPc = "ready"
    /\ FreeIdle
    /\ GenIdle
    /\ EngIdle
    /\ LiffIdle
    /\ FormIdle

CallBuildAvailabilityMatrix ==
    /\ matrixPc = "ready"
    /\ matrix' = buildAvailabilityMatrix(availabilities)
    /\ matrixPc' = "built"
    /\ UNCHANGED <<availabilities, freeVars, genVars, engVars, liffVars, formVars>>

NextMatrix == CallBuildAvailabilityMatrix

SpecMatrix == InitMatrix /\ [][NextMatrix]_vars

(***************************************************************************)
(* Reading the matrix                                                      *)
(***************************************************************************)
\* instants of a day (in seconds) at which the matrix is read
ProbeTimes == {0, 43200, 45000, 46800, 48600, 50400, 86399}

\* the sub-intervals of the matrix on date d that contain the instant t
SubIntervalsAt(d, t) ==
    {k \in DOMAIN matrix :
        /\ k[1] = d
        /\ k[2][1] * SecondsPerMinute <= t
        /\ t < k[2][2] * SecondsPerMinute}

\* the participants whose availability contains the instant t of date d
ParticipantsAt(d, t) ==
    {a \in Invitees :
        \E i \in 1..Len(availabilities) :
            /\ availabilities[i].InviteeID = a
            /\ availabilities[i].Date = d
            /\ availabilities[i].StartTime <= t
            /\ t < availabilities[i].EndTime}

\* C2: once the matrix is built, every instant of the date window lies in
\* exactly one of its sub-intervals (they do not overlap and they cover the
\* window), and what is recorded for that sub-interval is the set of the
\* participants whose availability contains the instant (the matrix records
\* a count: the size of that set).
C2_MatrixCoverage ==
    matrixPc = "built" =>
        \A d \in Dates : \A t \in ProbeTimes :
            /\ Cardinality(SubIntervalsAt(d, t)) = 1
            /\ \A k \in SubIntervalsAt(d, t) :
                   matrix[k] = Cardinality(ParticipantsAt(d, t))

(***************************************************************************)
(* GenerateSuggestions                                                     *)
(*                                                                         *)
(* Two callers run GenerateSuggestions for the same meeting.  The service  *)
(* holds no lock and opens no transaction, so the callers interleave at    *)
(* every call of a collaborator: the meeting service, the availability     *)
(* service, the ranking provider and the suggestion repository.            *)
(***************************************************************************)
Callers == {1, 2}

\* the texts the ranking provider can put in a suggestion
DateTexts == {"2025-02-05"}
ClockPairs == {<<"12:00", "13:00">>, <<"12:00", "13:30">>, <<"noon", "13:00">>}
ScoreValues == {40, 85, 110}

\* TimeSlotSuggestion, as json.Unmarshal fills it from the provider's answer
TimeSlotSuggestion ==
    {[Date |-> d, StartTime |-> c[1], EndTime |-> c[2], Score |-> sc,
      Rationale |-> "r", AvailableCount |-> 2] :
        d \in DateTexts, c \in ClockPairs, sc \in ScoreValues}

\* what RankTimeSlots can return without an error: the answer of the
\* generative model is not a function of the prompt (temperature 0.3, and
\* formatAvailabilityMatrix ranges over Go maps in random order), and
\* nothing checks its length, its order or its values
RankTimeSlots(meetingContext, availabilityMatrix) ==
    SeqsUpTo(TimeSlotSuggestion, MaxSuggestions)

\* the MeetingContext GenerateSuggestions prepares
MeetingContext(m) == [Duration |-> m.DurationMinutes,
                      TotalInvitees |-> m.Invitees]

\* time.Time values are counted in minutes since 0000-01-01 00:00, which is
\* where time.Parse("15:04", ...) puts a clock time; the zero time.Time that
\* a failed time.Parse returns is 0001-01-01 00:00, 366 days later
MinutesPerDay == 1440
ZeroTime == 366 * MinutesPerDay

\* time.Parse("15:04", s) with the error discarded
ParseClock(s) ==
    CASE s = "12:00" -> 720
      [] s = "13:00" -> 780
      [] s = "13:30" -> 810
      [] OTHER -> ZeroTime

\* time.Parse("2006-01-02", s) with the error discarded
ParseDate(s) ==
    CASE s = "2025-02-05" -> 739652 * MinutesPerDay
      [] OTHER -> ZeroTime

\* NewTimeSlot for the suggestion at index i (0-based i of the loop is i - 1)
\* of caller p; uuid.New() is modelled by the pair of the caller and the index
NewTimeSlot(p, i, suggestion) ==
    [ID |-> <<p, i>>,
     Date |-> ParseDate(suggestion.Date),
     StartTime |-> ParseClock(suggestion.StartTime),
     EndTime |-> ParseClock(suggestion.EndTime),
     Score |-> suggestion.Score,
     Rank |-> i,
     Rationale |-> suggestion.Rationale,
     AvailableCount |-> suggestion.AvailableCount]

\* the rows an earlier generation left in suggested_slots
OldSuggestions ==
    <<[ID |-> <<0, 1>>, Date |-> 739652 * MinutesPerDay, StartTime |-> 720,
       EndTime |-> 780, Score |-> 85, Rank |-> 1, Rationale |-> "r",
       AvailableCount |-> 2],
      [ID |-> <<0, 2>>, Date |-> 739652 * MinutesPerDay, StartTime |-> 780,
       EndTime |-> 840, Score |-> 40, Rank |-> 2, Rationale |-> "r",
       AvailableCount |-> 1]>>

\* the rows the two invitees of a meeting submitted (A 12:00-14:00 and
\* B 13:00-14:00 on date 0); a meeting without invitees has no rows, since a
\* row references its invitee
SubmittedAvailabilities ==
    <<[InviteeID |-> "A", Date |-> 0, StartTime |-> 43200, EndTime |-> 50400,
       Source |-> "manual"],
      [InviteeID |-> "B", Date |-> 0, StartTime |-> 46800, EndTime |-> 50400,
       Source |-> "manual"]>>

InitGen ==
    /\ mtg \in [DurationMinutes : {60}, Invitees : {0, 2}]
    /\ availabilities = IF mtg.Invitees = 0 THEN <<>>
                        ELSE SubmittedAvailabilities
    /\ stored = OldSuggestions
    /\ pc = [p \in Callers |-> "get_meeting"]
    /\ suggestions = [p \in Callers |-> <<>>]
    /\ timeSlots = [p \in Callers |-> <<>>]
    /\ err = [p \in Callers |-> "nil"]
    /\ FreeIdle
    /\ MatrixIdle
    /\ EngIdle
    /\ LiffIdle
    /\ FormIdle

\* return nil, fmt.Errorf(...)
ReturnError(p, e) ==
    /\ pc' = [pc EXCEPT ![p] = "returned"]
    /\ timeSlots' = [timeSlots EXCEPT ![p] = <<>>]
    /\ err' = [err EXCEPT ![p] = e]

\* s.meetingService.GetByID succeeds
GetMeeting(p) ==
    /\ pc[p] = "get_meeting"
    /\ pc' = [pc EXCEPT ![p] = "get_availabilities"]
    /\ UNCHANGED <<mtg, stored, suggestions, timeSlots, err,
                   availabilities, freeVars, matrixVars,
                   engVars, liffVars, formVars>>

GetMeetingFails(p) ==
    /\ pc[p] = "get_meeting"
    /\ ReturnError(p, "failed to get meeting")
    /\ UNCHANGED <<mtg, stored, suggestions,
                   availabilities, freeVars, matrixVars,
                   engVars, liffVars, formVars>>

\* s.availabilityService.GetByMeetingID succeeds
GetAvailabilities(p) ==
    /\ pc[p] = "get_availabilities"
    /\ pc' = [pc EXCEPT ![p] = "rank"]
    /\ UNCHANGED <<mtg, stored, suggestions, timeSlots, err,
                   availabilities, freeVars, matrixVars,
                   engVars, liffVars, formVars>>

GetAvailabilitiesFails(p) ==
    /\ pc[p] = "get_availabilities"
    /\ ReturnError(p, "failed to get availabilities")
    /\ UNCHANGED <<mtg, stored, suggestions,
                   availabilities, freeVars, matrixVars,
                   engVars, liffVars, formVars>>

\* the matrix and the context are built and s.aiProvider.RankTimeSlots answers
Rank(p) ==
    /\ pc[p] = "rank"
    /\ \E answer \in RankTimeSlots(MeetingContext(mtg),
                                   buildAvailabilityMatrix(availabilities)) :
           suggestions' = [suggestions EXCEPT ![p] = answer]
    /\ pc' = [pc EXCEPT ![p] = "delete"]
    /\ UNCHANGED <<mtg, stored, timeSlots, err,
                   availabilities, freeVars, matrixVars,
                   engVars, liffVars, formVars>>

\* RankTimeSlots returns an error: gemini API error, no response, or an
\* answer that does not parse
RankFails(p) ==
    /\ pc[p] = "rank"
    /\ ReturnError(p, "AI ranking failed")
    /\ UNCHANGED <<mtg, stored, suggestions,
                   availabilities, freeVars, matrixVars,
                   engVars, liffVars, formVars>>

\* s.suggestionRepo.DeleteByMeetingID succeeds
DeleteOld(p) ==
    /\ pc[p] = "delete"
    /\ stored' = <<>>
    /\ pc' = [pc EXCEPT ![p] = "create"]
    /\ UNCHANGED <<mtg, suggestions, timeSlots, err,
                   availabilities, freeVars, matrixVars,
                   engVars, liffVars, formVars>>

DeleteOldFails(p) ==
    /\ pc[p] = "delete"
    /\ ReturnError(p, "failed to delete old suggestions")
    /\ UNCHANGED <<mtg, stored, suggestions,
                   availabilities, freeVars, matrixVars,
                   engVars, liffVars, formVars>>

\* one iteration of the loop over the suggestions: NewTimeSlot, then
\* s.suggestionRepo.Create succeeds and the slot is appended to timeSlots
CreateNext(p) ==
    /\ pc[p] = "create"
    /\ Len(timeSlots[p]) < Len(suggestions[p])
    /\ LET i == Len(timeSlots[p]) + 1
           slot == NewTimeSlot(p, i, suggestions[p][i])
       IN /\ stored' = Append(stored, slot)
          /\ timeSlots' = [timeSlots EXCEPT ![p] = Append(@, slot)]
    /\ UNCHANGED <<mtg, pc, suggestions, err,
                   availabilities, freeVars, matrixVars,
                   engVars, liffVars, formVars>>

CreateNextFails(p) ==
    /\ pc[p] = "create"
    /\ Len(timeSlots[p]) < Len(suggestions[p])
    /\ ReturnError(p, "failed to save suggestion")
    /\ UNCHANGED <<mtg, stored, suggestions,
                   availabilities, freeVars, matrixVars,
                   engVars, liffVars, formVars>>

\* return timeSlots, nil
ReturnTimeSlots(p) ==
    /\ pc[p] = "create"
    /\ Len(timeSlots[p]) = Len(suggestions[p])
    /\ pc' = [pc EXCEPT ![p] = "returned"]
    /\ UNCHANGED <<mtg, stored, suggestions, timeSlots, err,
                   availabilities, freeVars, matrixVars,
                   engVars, liffVars, formVars>>

GenerateSuggestions(p) ==
    \/ GetMeeting(p)
    \/ GetMeetingFails(p)
    \/ GetAvailabilities(p)
    \/ GetAvailabilitiesFails(p)
    \/ Rank(p)
    \/ RankFails(p)
    \/ DeleteOld(p)
    \/ DeleteOldFails(p)
    \/ CreateNext(p)
    \/ CreateNextFails(p)
    \/ ReturnTimeSlots(p)

NextGen == \E p \in Callers : GenerateSuggestions(p)

SpecGen == InitGen /\ [][NextGen]_vars

(***************************************************************************)
(* SpecGenSingle: one caller of GenerateSuggestions (the other never       *)
(* starts), for a meeting whose stored duration is positive or not; the    *)
(* meetings table puts no CHECK on duration_minutes                        *)
(***************************************************************************)
InitGenSingle ==
    /\ mtg \in [DurationMinutes : {-30, 60}, Invitees : {0, 2}]
    /\ availabilities = IF mtg.Invitees = 0 THEN <<>>
                        ELSE SubmittedAvailabilities
    /\ stored \in {<<>>, OldSuggestions}
    /\ pc = [p \in Callers |-> IF p = 1 THEN "get_meeting" ELSE "idle"]
    /\ suggestions = [p \in Callers |-> <<>>]
    /\ timeSlots = [p \in Callers |-> <<>>]
    /\ err = [p \in Callers |-> "nil"]
    /\ FreeIdle
    /\ MatrixIdle
    /\ EngIdle
    /\ LiffIdle
    /\ FormIdle

SpecGenSingle == InitGenSingle /\ [][NextGen]_vars

(***************************************************************************)
(* Reading the outcome of GenerateSuggestions                              *)
(***************************************************************************)
Range(f) == {f[i] : i \in DOMAIN f}

\* caller p got timeSlots back with a nil error
Succeeded(p) == pc[p] = "returned" /\ err[p] = "nil"

\* the fields of a TimeSlot the caller serializes, the generated ID left out
Fields(slot) == [Date |-> slot.Date, StartTime |-> slot.StartTime,
                 EndTime |-> slot.EndTime, Score |-> slot.Score,
                 Rank |-> slot.Rank, Rationale |-> slot.Rationale,
                 AvailableCount |-> slot.AvailableCount]

FieldsOf(slots) == [i \in 1..Len(slots) |-> Fields(slots[i])]

\* the complete set of rows caller p is about to store
NewSuggestions(p) ==
    [i \in 1..Len(suggestions[p]) |-> NewTimeSlot(p, i, suggestions[p][i])]

\* C3: every suggestion returned or stored by GenerateSuggestions has a
\* score between 0 and 100.
C3_ScoreBounds ==
    /\ \A i \in 1..Len(stored) : 0 <= stored[i].Score /\ stored[i].Score <= 100
    /\ \A p \in Callers : Succeeded(p) =>
           \A i \in 1..Len(timeSlots[p]) :
               0 <= timeSlots[p][i].Score /\ timeSlots[p][i].Score <= 100

\* C4: two invocations on the same meeting and the same availabilities return
\* the same suggestions in the same order: same date, start, end, score,
\* rank, rationale and available count.
C4_Determinism ==
    (Succeeded(1) /\ Succeeded(2)) =>
        FieldsOf(timeSlots[1]) = FieldsOf(timeSlots[2])

\* C5: at every moment the stored suggestions of the meeting are either the
\* complete previous set or the complete new set of a regeneration, never an
\* empty, partial or mixed set.
C5_AtomicReplacement ==
    \/ stored = OldSuggestions
    \/ \E p \in Callers :
           /\ pc[p] \in {"create", "returned"}
           /\ err[p] \notin {"failed to get meeting",
                             "failed to get availabilities",
                             "AI ranking failed"}
           /\ stored = NewSuggestions(p)

\* C6: when two calls for the same meeting have run, their writes did not
\* interleave: the stored set is exactly the output of one of the two calls,
\* each rank 1..n present exactly once.
C6_SerializedRegeneration ==
    (Succeeded(1) /\ Succeeded(2)) =>
        \E p \in Callers :
            /\ Range(stored) = Range(timeSlots[p])
            /\ Len(stored) = Len(timeSlots[p])
            /\ \A r \in 1..Len(timeSlots[p]) :
                   Cardinality({i \in 1..Len(stored) : stored[i].Rank = r}) = 1

\* C7: in the returned list, where position i carries rank i, the scores are
\* non-increasing.
C7_MonotonicRanking ==
    \A p \in Callers : Succeeded(p) =>
        \A i \in 1..Len(timeSlots[p]) :
            /\ timeSlots[p][i].Rank = i
            /\ i < Len(timeSlots[p]) =>
                   timeSlots[p][i].Score >= timeSlots[p][i + 1].Score

\* C8: every suggestion returned or stored by GenerateSuggestions spans
\* exactly the meeting's duration in minutes.
C8_DurationFidelity ==
    /\ \A i \in 1..Len(stored) :
           stored[i].EndTime - stored[i].StartTime = mtg.DurationMinutes
    /\ \A p \in Callers : Succeeded(p) =>
           \A i \in 1..Len(timeSlots[p]) :
               timeSlots[p][i].EndTime - timeSlots[p][i].StartTime
                   = mtg.DurationMinutes

\* C9: a failure of the ranking provider never makes GenerateSuggestions
\* return an error: the call still returns suggestions.
C9_RankerFailureTolerated ==
    \A p \in Callers :
        pc[p] = "returned" => err[p] # "AI ranking failed"

\* C10: with a total participant count of 0, a call that returns without a
\* collaborator error returns an empty suggestion list.
C10_NoParticipantsEmpty ==
    \A p \in Callers :
        (Succeeded(p) /\ MeetingContext(mtg).TotalInvitees = 0) =>
            timeSlots[p] = <<>>

\* C11: when no candidate slot can exist (here: the duration is not
\* positive), a call that returns without a collaborator error returns an
\* empty list (and signals "infeasible constraints").
C11_InfeasibleConstraintsEmpty ==
    \A p \in Callers :
        (Succeeded(p) /\ MeetingContext(mtg).Duration <= 0) =>
            timeSlots[p] = <<>>

\* the instant a slot starts at, and the middle of the meeting's date window
\* (the one day "2025-02-05")
StartInstant(slot) == slot.Date + slot.StartTime
WindowMidpoint == ParseDate("2025-02-05") + 720
DistanceToMidpoint(slot) ==
    IF StartInstant(slot) >= WindowMidpoint
    THEN StartInstant(slot) - WindowMidpoint
    ELSE WindowMidpoint - StartInstant(slot)

\* the candidate a slot stands for: the slot without its ID and its rank
Candidate(slot) == [Date |-> slot.Date, StartTime |-> slot.StartTime,
                    EndTime |-> slot.EndTime, Score |-> slot.Score,
                    AvailableCount |-> slot.AvailableCount]

\* a comes before b in the order of RankSelector: higher score, then higher
\* available count, then earlier start, then nearer to the window's middle
Precedes(a, b) ==
    \/ a.Score > b.Score
    \/ /\ a.Score = b.Score
       /\ a.AvailableCount > b.AvailableCount
    \/ /\ a.Score = b.Score
       /\ a.AvailableCount = b.AvailableCount
       /\ StartInstant(a) < StartInstant(b)
    \/ /\ a.Score = b.Score
       /\ a.AvailableCount = b.AvailableCount
       /\ StartInstant(a) = StartInstant(b)
       /\ DistanceToMidpoint(a) < DistanceToMidpoint(b)

\* C12: the returned list is in the strict total order of RankSelector: of
\* two distinct candidates the one that comes first in the list precedes the
\* other by score, then available count, then start, then distance to the
\* middle of the window.
C12_RankSelectorOrder ==
    \A p \in Callers : Succeeded(p) =>
        \A i, j \in 1..Len(timeSlots[p]) :
            (i < j /\ Candidate(timeSlots[p][i]) # Candidate(timeSlots[p][j]))
                => Precedes(timeSlots[p][i], timeSlots[p][j])

\* the date of the availabilities table a slot falls on: date 0 of the rows
\* is the day "2025-02-05"
SlotDate(slot) == (slot.Date - ParseDate("2025-02-05")) \div MinutesPerDay

\* invitee a has a row that contains the minute m of date d
FreeAtMinute(a, d, m) ==
    \E i \in 1..Len(availabilities) :
        /\ availabilities[i].InviteeID = a
        /\ availabilities[i].Date = d
        /\ availabilities[i].StartTime <= m * SecondsPerMinute
        /\ (m + 1) * SecondsPerMinute <= availabilities[i].EndTime

\* the invitees who are free during the whole of a slot
FreeThroughout(slot) ==
    {a \in Invitees :
        /\ slot.StartTime < slot.EndTime
        /\ \A m \in slot.StartTime..(slot.EndTime - 1) :
               FreeAtMinute(a, SlotDate(slot), m)}

\* C13: the available count of a returned slot is the number of distinct
\* participants who are free during the whole slot, and it never exceeds the
\* meeting's total participant count.
C13_AvailableCountExact ==
    \A p \in Callers : Succeeded(p) =>
        \A i \in 1..Len(timeSlots[p]) :
            /\ timeSlots[p][i].AvailableCount
                   = Cardinality(FreeThroughout(timeSlots[p][i]))
            /\ timeSlots[p][i].AvailableCount
                   <= MeetingContext(mtg).TotalInvitees

\* the sources invitee a has rows from
SourcesOf(a) ==
    {availabilities[i].Source :
        i \in {j \in 1..Len(availabilities) : availabilities[j].InviteeID = a}}

\* source s of invitee a marks the instant t of date d free
FreeInSource(a, s, d, t) ==
    \E i \in 1..Len(availabilities) :
        /\ availabilities[i].InviteeID = a
        /\ availabilities[i].Source = s
        /\ availabilities[i].Date = d
        /\ availabilities[i].StartTime <= t
        /\ t < availabilities[i].EndTime

\* a row of invitee a is counted in a sub-interval of the matrix that
\* contains the instant t of date d
CountedAt(a, d, t) ==
    \E i \in 1..Len(availabilities) :
        /\ availabilities[i].InviteeID = a
        /\ MatrixKey(availabilities[i]) \in SubIntervalsAt(d, t)

\* C14: a participant with several sources is counted as free at an instant
\* only if every one of their sources marks it free: an instant that one
\* source marks free and another does not is not counted for them.
C14_SourcesIntersected ==
    matrixPc = "built" =>
        \A a \in Invitees : \A d \in Dates : \A t \in ProbeTimes :
            ( /\ \E s \in SourcesOf(a) : FreeInSource(a, s, d, t)
              /\ \E s \in SourcesOf(a) : ~FreeInSource(a, s, d, t) )
                => ~CountedAt(a, d, t)

\* some participant has a free window as long as the meeting somewhere in
\* the date window
SomeAvailabilityFits ==
    /\ MeetingContext(mtg).Duration > 0
    /\ \E i \in 1..Len(availabilities) :
           availabilities[i].EndTime - availabilities[i].StartTime
               >= MeetingContext(mtg).Duration * SecondsPerMinute

\* C15: when some participant has availability for a duration-long window,
\* the result list is not empty, whatever the preferred-day and
\* preferred-time filters leave (candidates then come from the whole window).
C15_FallbackNonEmpty ==
    \A p \in Callers :
        (Succeeded(p) /\ SomeAvailabilityFits) => timeSlots[p] # <<>>

(***************************************************************************)
(* The ranking engine of the design (sections 4.2 to 4.5), which the       *)
(* repository does not contain: the service asks the ranking provider      *)
(* instead.  It is modelled from the design's text and run on the inputs   *)
(* of the design's example: three participants with one free window each   *)
(* on one weekday, a 90-minute meeting, preferred band 13:00-16:00.  Times *)
(* are minutes of the day; scores are hundredths of a point.               *)
(***************************************************************************)
Participants == {"A", "B", "C"}
ExampleDuration == 90
PreferredBand == <<780, 960>>
Granularities == {15, 30}
TopN == 3
ExampleIntervals == {<<720, 900>>, <<810, 1020>>, <<540, 840>>, <<600, 720>>}

\* 4.2: every start and end instant is a breakpoint, with the ends of the day
Breakpoints(free) ==
    {0, MinutesPerDay} \cup {free[q][1] : q \in Participants}
                       \cup {free[q][2] : q \in Participants}

\* 4.2: the sub-intervals between consecutive breakpoints
SubIntervals(free) ==
    {iv \in Breakpoints(free) \X Breakpoints(free) :
        /\ iv[1] < iv[2]
        /\ ~\E c \in Breakpoints(free) : iv[1] < c /\ c < iv[2]}

\* 4.2: the participants whose availability covers each sub-interval
EngineMatrix(free) ==
    [iv \in SubIntervals(free) |->
        {q \in Participants : free[q][1] <= iv[1] /\ iv[2] <= free[q][2]}]

\* 4.3: a participant is available for a slot only if every sub-interval
\* the slot spans includes that participant
AvailableFor(m, s, e) ==
    {q \in Participants :
        \A iv \in DOMAIN m : (iv[1] < e /\ s < iv[2]) => q \in m[iv]}

\* 4.3: the slot shares time with the preferred band
WithinPreferredBand(s, e) == PreferredBand[1] <= s /\ e <= PreferredBand[2]
OverlapsPreferredBand(s, e) == s < PreferredBand[2] /\ PreferredBand[1] < e

\* 4.3: every start at the granularity whose slot fits in the day
CandidateStarts(g, duration) ==
    {s \in 0..(MinutesPerDay - duration) : s % g = 0}

\* 4.3: the candidates of the preferred band, or of the whole day, flagged
\* non-preferred, when the band leaves none
GenerateCandidates(input) ==
    LET m == EngineMatrix(input.free)
        all == CandidateStarts(input.granularity, ExampleDuration)
        preferred == {s \in all :
                         OverlapsPreferredBand(s, s + ExampleDuration)}
        starts == IF preferred = {} THEN all ELSE preferred
    IN {[Date |-> ParseDate("2025-02-05"),
         StartTime |-> s,
         EndTime |-> s + ExampleDuration,
         AvailableCount |->
             Cardinality(AvailableFor(m, s, s + ExampleDuration)),
         DayMatch |-> TRUE,
         TimeMatch |-> preferred # {}] : s \in starts}

\* 4.4: base (availableCount / totalParticipants) * 70, 0 when there are no
\* participants, +15 for the day, +15 for the time band, capped at 100
EngineScore(c, total) ==
    LET base == IF total = 0 THEN 0 ELSE (c.AvailableCount * 7000) \div total
        raw == base + (IF c.DayMatch THEN 1500 ELSE 0)
                    + (IF c.TimeMatch THEN 1500 ELSE 0)
    IN IF raw > 10000 THEN 10000 ELSE raw

Scored(c, total) ==
    [Date |-> c.Date, StartTime |-> c.StartTime, EndTime |-> c.EndTime,
     AvailableCount |-> c.AvailableCount, Score |-> EngineScore(c, total)]

\* 4.5: the candidates in the order of RankSelector
RECURSIVE SortCandidates(_)
SortCandidates(S) ==
    IF S = {} THEN <<>>
    ELSE LET first == CHOOSE c \in S : \A o \in S \ {c} : Precedes(c, o)
         IN <<first>> \o SortCandidates(S \ {first})

\* 4.5: a candidate within one granularity step of a kept candidate of the
\* same score is collapsed into it
RECURSIVE Collapse(_, _, _, _)
Collapse(sorted, i, kept, g) ==
    IF i > Len(sorted) THEN kept
    ELSE LET c == sorted[i]
             same == \E k \in 1..Len(kept) :
                        /\ kept[k].Score = c.Score
                        /\ c.StartTime - kept[k].StartTime <= g
                        /\ kept[k].StartTime - c.StartTime <= g
         IN Collapse(sorted, i + 1, IF same THEN kept ELSE Append(kept, c), g)

\* 4.5: the top N with their 1-based ranks
RankSelect(S, g) ==
    LET kept == Collapse(SortCandidates(S), 1, <<>>, g)
        n == IF Len(kept) < TopN THEN Len(kept) ELSE TopN
    IN [i \in 1..n |->
           [Date |-> kept[i].Date, StartTime |-> kept[i].StartTime,
            EndTime |-> kept[i].EndTime, Score |-> kept[i].Score,
            Rank |-> i, AvailableCount |-> kept[i].AvailableCount]]

InitEngine ==
    /\ engInput \in [free : [Participants -> ExampleIntervals],
                     granularity : Granularities]
    /\ engPc = "input"
    /\ engCandidates = {}
    /\ engRanked = <<>>
    /\ availabilities = <<>>
    /\ FreeIdle
    /\ MatrixIdle
    /\ GenIdle
    /\ LiffIdle
    /\ FormIdle

EngGenerateCandidates ==
    /\ engPc = "input"
    /\ engCandidates' = GenerateCandidates(engInput)
    /\ engPc' = "candidates"
    /\ UNCHANGED <<engInput, engRanked, availabilities,
                   freeVars, matrixVars, genVars, liffVars, formVars>>

EngScoreCandidates ==
    /\ engPc = "candidates"
    /\ engCandidates' =
           {Scored(c, Cardinality(Participants)) : c \in engCandidates}
    /\ engPc' = "scored"
    /\ UNCHANGED <<engInput, engRanked, availabilities,
                   freeVars, matrixVars, genVars, liffVars, formVars>>

EngRankSelect ==
    /\ engPc = "scored"
    /\ engRanked' = RankSelect(engCandidates, engInput.granularity)
    /\ engPc' = "ranked"
    /\ UNCHANGED <<engInput, engCandidates, availabilities,
                   freeVars, matrixVars, genVars, liffVars, formVars>>

NextEngine ==
    \/ EngGenerateCandidates
    \/ EngScoreCandidates
    \/ EngRankSelect

SpecEngine == InitEngine /\ [][NextEngine]_vars

\* the inputs of the design's example: A free 12:00-15:00, B free
\* 13:30-17:00, C free 09:00-14:00
IsExample ==
    /\ engPc # "idle"
    /\ engInput.free["A"] = <<720, 900>>
    /\ engInput.free["B"] = <<810, 1020>>
    /\ engInput.free["C"] = <<540, 840>>

FetchOutcomes == {"ok", "not_ok", "network_error"}

\* what the run finds: the build's environment variables, the LIFF SDK and
\* the backend
LiffEnvValues ==
    [liffId : BOOLEAN,      \* NEXT_PUBLIC_LIFF_ID is set
     initOk : BOOLEAN,      \* liff.init resolves
     loggedIn : BOOLEAN,    \* liff.isLoggedIn()
     inClient : BOOLEAN,    \* liff.isInClient()
     token : BOOLEAN,       \* liff.getAccessToken() is not null
     apiBase : BOOLEAN,     \* NEXT_PUBLIC_API_BASE_URL is set
     profileOk : BOOLEAN,   \* liff.getProfile resolves
     auth : FetchOutcomes,  \* POST /users/auth/line-login
     me : FetchOutcomes]    \* GET /users/me

InitLiff ==
    /\ liffEnv \in LiffEnvValues
    /\ liffPc = "start"
    /\ user = "null"
    /\ isInitialized = FALSE
    /\ isInClient = FALSE
    /\ availabilities = <<>>
    /\ FreeIdle
    /\ MatrixIdle
    /\ GenIdle
    /\ EngIdle
    /\ FormIdle

\* a catch block that logs the error and leaves isInitialized alone
CatchInitErrorSilent ==
    /\ liffPc' = "done"
    /\ UNCHANGED <<user, isInitialized>>

\* catch (err): setIsInitialized(true)
CatchInitError ==
    /\ isInitialized' = TRUE
    /\ liffPc' = "done"
    /\ UNCHANGED user

\* initLiff up to await liff.init
InitLiffStart ==
    /\ liffPc = "start"
    /\ IF ~liffEnv.liffId
       THEN /\ isInitialized' = TRUE
            /\ liffPc' = "done"
       ELSE /\ liffPc' = "await_init"
            /\ UNCHANGED isInitialized
    /\ UNCHANGED <<liffEnv, user, isInClient, availabilities,
                   freeVars, matrixVars, genVars, engVars,
                   formVars>>

\* liff.init settles; on success the run goes on to the next await
LiffInitSettles ==
    /\ liffPc = "await_init"
    /\ IF ~liffEnv.initOk
       THEN CatchInitError /\ UNCHANGED isInClient
       ELSE /\ isInClient' = liffEnv.inClient
            /\ IF ~liffEnv.loggedIn
               THEN /\ liffPc' = "redirected"    \* liff.login(); return
                    /\ UNCHANGED <<user, isInitialized>>
               ELSE IF ~liffEnv.token
               THEN CatchInitError  \* throw "Failed to get LIFF Access Token"
               ELSE /\ liffPc' = IF ~liffEnv.apiBase THEN "await_profile"
                                 ELSE "await_auth"
                    /\ UNCHANGED <<user, isInitialized>>
    /\ UNCHANGED <<liffEnv, availabilities,
                   freeVars, matrixVars, genVars, engVars,
                   formVars>>

\* LIFF-only mode: liff.getProfile settles
ProfileSettles ==
    /\ liffPc = "await_profile"
    /\ IF liffEnv.profileOk
       THEN /\ user' = "liff_profile"
            /\ isInitialized' = TRUE
            /\ liffPc' = "done"
       ELSE CatchInitError
    /\ UNCHANGED <<liffEnv, isInClient, availabilities,
                   freeVars, matrixVars, genVars, engVars,
                   formVars>>

\* a token exchange that marks the provider initialized as soon as the
\* backend accepts the token, before the profile is fetched
AuthSettlesMarksInitialized ==
    /\ liffPc = "await_auth"
    /\ IF liffEnv.auth = "ok"
       THEN /\ liffPc' = "await_me"
            /\ isInitialized' = TRUE
            /\ UNCHANGED user
       ELSE CatchInitError
    /\ UNCHANGED <<liffEnv, isInClient, availabilities,
                   freeVars, matrixVars, genVars, engVars,
                   formVars>>

\* the token exchange with /users/auth/line-login settles
AuthSettles ==
    /\ liffPc = "await_auth"
    /\ IF liffEnv.auth = "ok"
       THEN /\ liffPc' = "await_me"
            /\ UNCHANGED <<user, isInitialized>>
       ELSE CatchInitError     \* fetch rejects, or throw "Authentication failed"
    /\ UNCHANGED <<liffEnv, isInClient, availabilities,
                   freeVars, matrixVars, genVars, engVars,
                   formVars>>

\* the fetch of /users/me settles
MeSettles ==
    /\ liffPc = "await_me"
    /\ IF liffEnv.me = "ok"
       THEN /\ user' = "backend_user"
            /\ isInitialized' = TRUE
            /\ liffPc' = "done"
       ELSE CatchInitError     \* fetch rejects, or throw "Failed to fetch user"
    /\ UNCHANGED <<liffEnv, isInClient, availabilities,
                   freeVars, matrixVars, genVars, engVars,
                   formVars>>

NextLiff ==
    \/ InitLiffStart
    \/ LiffInitSettles
    \/ ProfileSettles
    \/ AuthSettles
    \/ MeSettles

SpecLiff == InitLiff /\ [][NextLiff]_vars

\* a LINE user is logged in and LIFF works
LoggedInLineUser ==
    /\ liffEnv.liffId
    /\ liffEnv.initOk
    /\ liffEnv.loggedIn
    /\ liffEnv.token
    /\ liffEnv.profileOk

\* the backend is configured but the exchange or the profile fetch fails
BackendUnavailable ==
    /\ liffEnv.apiBase
    /\ liffEnv.auth # "ok" \/ liffEnv.me # "ok"

\* C17: when the backend is unavailable for a logged-in LINE user, the
\* provider falls back to the LIFF profile: user is not null once
\* isInitialized is true.
C17_BackendFallbackToProfile ==
    (liffPc # "idle" /\ isInitialized
        /\ LoggedInLineUser /\ BackendUnavailable) => user # "null"

(***************************************************************************)
(* Busy intervals outside the working bounds                               *)
(***************************************************************************)
\* the busy interval b lies wholly outside the working bounds of date d
OutsideBounds(b, d) ==
    \/ b.End <= DateAt(d, WorkingHoursStart)
    \/ b.Start >= DateAt(d, WorkingHoursEnd)

\* busy without its intervals that lie wholly outside the bounds of date d
RECURSIVE WithoutOutside(_, _)
WithoutOutside(busy, d) ==
    IF busy = <<>> THEN <<>>
    ELSE IF OutsideBounds(Head(busy), d)
         THEN WithoutOutside(Tail(busy), d)
         ELSE <<Head(busy)>> \o WithoutOutside(Tail(busy), d)

\* the free slots the returned list holds for date d, in order
RECURSIVE ReturnedFor(_, _)
ReturnedFor(slots, d) ==
    IF slots = <<>> THEN <<>>
    ELSE IF Head(slots).Date = d
         THEN <<Head(slots)>> \o ReturnedFor(Tail(slots), d)
         ELSE ReturnedFor(Tail(slots), d)

\* C18: on every day computed, the free intervals returned are those of the
\* input without its busy intervals wholly outside the day's working bounds,
\* and no returned free interval starts before or ends after the bounds.
C18_OutsideBoundsIgnored ==
    freePc = "returned" =>
        \A d \in LoopDates(startDate, endDate) :
            /\ ReturnedFor(freeSlots, d)
                   = FreeSlotsOfDay(WithoutOutside(busySlots, d), d,
                                    WorkingHoursStart, WorkingHoursEnd)
            /\ \A i \in 1..Len(freeSlots) :
                   freeSlots[i].Date = d =>
                       /\ freeSlots[i].StartTime >= DateAt(d, WorkingHoursStart)
                       /\ freeSlots[i].EndTime <= DateAt(d, WorkingHoursEnd)

(***************************************************************************)
(* The date window of CalculateFreeSlots                                   *)
(***************************************************************************)
\* the calendar dates of the window [first, last], both ends included
WindowDates(first, last) == {d \in Dates : first <= d /\ d <= last}

\* C19: the date window is inclusive at both ends: the returned list holds
\* the day's free intervals for every date from startDate through endDate,
\* the end date included, and nothing for a date outside the window.
C19_WindowInclusive ==
    freePc = "returned" =>
        /\ \A d \in WindowDates(startDate, endDate) :
               ReturnedFor(freeSlots, d)
                   = FreeSlotsOfDay(busySlots, d,
                                    WorkingHoursStart, WorkingHoursEnd)
        /\ \A i \in 1..Len(freeSlots) :
               freeSlots[i].Date \in WindowDates(startDate, endDate)

(***************************************************************************)
(* Parse failures                                                          *)
(***************************************************************************)
\* slot holds the zero time.Time a failed time.Parse leaves behind
HoldsZeroTime(slot) ==
    \/ slot.Date = ZeroTime
    \/ slot.StartTime = ZeroTime
    \/ slot.EndTime = ZeroTime

\* C20: a date or time string that fails to parse never becomes a
\* zero-valued time of a suggestion: no TimeSlot saved by GenerateSuggestions
\* and no TimeSlot it returns with a nil error holds the zero time.
C20_NoZeroTimeFromParseFailure ==
    /\ \A i \in 1..Len(stored) : ~HoldsZeroTime(stored[i])
    /\ \A p \in Callers : Succeeded(p) =>
           \A i \in 1..Len(timeSlots[p]) : ~HoldsZeroTime(timeSlots[p][i])

(***************************************************************************)
(* SpecLiffFair: the run of initLiff when every promise it awaits          *)
(* (liff.init, liff.getProfile, fetch) settles, by resolving or rejecting  *)
(***************************************************************************)
SpecLiffFair == InitLiff /\ [][NextLiff]_vars /\ WF_vars(NextLiff)

C26_UserBeforeInitialized ==
    [][isInitialized => (user = "null" => user' = "null")]_vars

\* a run that ended initialized with a user
C26_InitializedWithUser ==
    /\ liffPc = "done"
    /\ isInitialized
    /\ user # "null"

(***************************************************************************)
(* The create-meeting form (src/src/app/create/page.tsx, the page with the *)
(* edit modal) and the home page that leads to it.                         *)
(*                                                                         *)
(* Dates.  A Date is an instant counted in half days since the midnight    *)
(* that starts 1 November 2026, a Sunday: the days the calendar grid shows *)
(* are midnights (even instants), new Date() is the odd instant of today.  *)
(***************************************************************************)
MaxMonth == 2       \* the calendar shows the months 0..MaxMonth
MaxSent == 2        \* createMeeting.mutate calls followed
MaxSelected == 3    \* toggleTimeSlot appends up to this length

TicksPerDay == 2
DaysPerWeek == 7
Today == 1

StartOfDay(d) == d * TicksPerDay
DayOf(t) == t \div TicksPerDay

\* new Date()
Now == StartOfDay(Today) + 1

\* the lengths of the months from November 2026 on
DaysInMonth(m) ==
    CASE m \in {0, 5, 7, 10} -> 30
      [] m = 3 -> 28
      [] OTHER -> 31

RECURSIVE MonthStart(_)
MonthStart(m) == IF m = 0 THEN 0 ELSE MonthStart(m - 1) + DaysInMonth(m - 1)

\* the month the day d lies in
RECURSIVE MonthFrom(_, _)
MonthFrom(d, m) == IF d < MonthStart(m + 1) THEN m ELSE MonthFrom(d, m + 1)

MonthOf(d) == MonthFrom(d, 0)
DayOfMonth(d) == d - MonthStart(MonthOf(d)) + 1

\* date-fns on instants
isBefore(a, b) == a < b
isSameDay(a, b) == DayOf(a) = DayOf(b)
isSameMonth(t, month) == MonthOf(DayOf(t)) = month
getDay(t) == DayOf(t) % DaysPerWeek
addDays(t, n) == t + n * TicksPerDay
addWeeks(t, n) == addDays(t, n * DaysPerWeek)

\* addMonths keeps the day of the month, or takes the last day of a shorter
\* month, and keeps the time of day
addMonths(t, n) ==
    LET d == DayOf(t)
        m == MonthOf(d) + n
        dom == IF DayOfMonth(d) > DaysInMonth(m) THEN DaysInMonth(m)
               ELSE DayOfMonth(d)
    IN StartOfDay(MonthStart(m) + dom - 1) + (t % TicksPerDay)

startOfWeek(d) == d - (d % DaysPerWeek)
endOfWeek(d) == d + (DaysPerWeek - 1) - (d % DaysPerWeek)

\* calendarDays: the midnights of the grid of the month
calendarDays(month) ==
    {StartOfDay(d) :
        d \in startOfWeek(MonthStart(month))
                  ..endOfWeek(MonthStart(month + 1) - 1)}

\* eachDayOfInterval({start, end}): the days from the day of start up to the
\* last midnight that is not after end, in order
eachDayOfInterval(start, end) ==
    [i \in 1..(DayOf(end) - DayOf(start) + 1) |-> DayOf(start) + i - 1]

\* format(d, "yyyy-MM-dd"), the year left out: the days shown share the
\* months of one list
FormatDate(d) == <<MonthOf(d), DayOfMonth(d)>>

dayNameMap == <<"sunday", "monday", "tuesday", "wednesday", "thursday",
                "friday", "saturday">>
WEEKDAYS == {"monday", "tuesday", "wednesday", "thursday", "friday"}
WEEKENDS == {"saturday", "sunday"}

DURATION_PRESETS == {30, 60, 120}
DATE_RANGE_PRESETS ==
    {[weeks |-> 1, months |-> 0], [weeks |-> 2, months |-> 0],
     [weeks |-> 3, months |-> 0], [weeks |-> 0, months |-> 1]}

(***************************************************************************)
(* Conversions of the form                                                 *)
(***************************************************************************)
\* what the duration field can hold: a number input hands over the empty
\* string when its text is not a number
DurationTexts == {"", "0", "-30", "45"}

\* Number(e.target.value)
Number(s) ==
    CASE s = "" -> 0
      [] s = "0" -> 0
      [] s = "-30" -> -30
      [] s = "45" -> 45

Titles == {"", " ", "Lunch"}

\* String.prototype.trim
Trim(s) == IF s = " " THEN "" ELSE s

\* parseInt of a wheel item
parseInt(s) ==
    CASE s = "00" -> 0
      [] s = "09" -> 9
      [] s = "11" -> 11
      [] s = "13" -> 13
      [] s = "16" -> 16
      [] s = "17" -> 17
      [] s = "19" -> 19
      [] s = "30" -> 30

\* `${editStartH}:${editStartM}-${editEndH}:${editEndM}`: the items of the
\* wheels are two characters wide, so the string is told by its four parts,
\* which split("-") and split(":") give back
FormatSlot(w) == <<w.StartH, w.StartM, w.EndH, w.EndM>>
SplitSlot(slot) == [StartH |-> slot[1], StartM |-> slot[2],
                    EndH |-> slot[3], EndM |-> slot[4]]

\* slot.split("-"): the start and the end of the range
SlotStart(slot) == <<slot[1], slot[2]>>
SlotEnd(slot) == <<slot[3], slot[4]>>

DEFAULT_TIME_SLOTS ==
    <<<<"09", "00", "11", "00">>, <<"11", "00", "13", "00">>,
      <<"13", "00", "16", "00">>, <<"17", "00", "19", "00">>>>

\* prev.includes(x)
Includes(seq, x) == \E i \in 1..Len(seq) : seq[i] = x

\* prev.filter((s) => s !== x)
Without(seq, x) == SelectSeq(seq, LAMBDA s : s # x)

\* prev.map((s) => (s === old ? new : s))
MapReplace(seq, old, new) ==
    [i \in 1..Len(seq) |-> IF seq[i] = old THEN new ELSE seq[i]]

(***************************************************************************)
(* State of the pages                                                      *)
(***************************************************************************)
backendVars == <<availabilities, freeVars, matrixVars, genVars, engVars>>

\* LiffProvider after a run of initLiff that ended with a user
LiffReady ==
    /\ liffEnv = <<>>
    /\ liffPc = "done"
    /\ user = "backend_user"
    /\ isInitialized = TRUE
    /\ isInClient = TRUE

BackendIdle ==
    /\ availabilities = <<>>
    /\ FreeIdle
    /\ MatrixIdle
    /\ GenIdle
    /\ EngIdle

\* the useState initial values of CreateMeetingContent
CreateMounted ==
    /\ title = ""
    /\ durationMinutes = 60
    /\ selectedDays = WEEKDAYS
    /\ currentMonth = MonthOf(Today)
    /\ dateRangeStart = NullDate
    /\ dateRangeEnd = NullDate
    /\ slotList = DEFAULT_TIME_SLOTS
    /\ selectedTimeSlots = <<DEFAULT_TIME_SLOTS[2], DEFAULT_TIME_SLOTS[4]>>
    /\ editingSlotIdx = NullIdx
    /\ editWheels = [StartH |-> "09", StartM |-> "00",
                     EndH |-> "11", EndM |-> "00"]
    /\ validationError = "null"
    /\ mutationStatus = "idle"

\* the create page is not mounted
CreateUnmounted ==
    /\ title = ""
    /\ durationMinutes = 0
    /\ selectedDays = {}
    /\ currentMonth = 0
    /\ dateRangeStart = NullDate
    /\ dateRangeEnd = NullDate
    /\ slotList = <<>>
    /\ selectedTimeSlots = <<>>
    /\ editingSlotIdx = NullIdx
    /\ editWheels = <<>>
    /\ validationError = "null"
    /\ mutationStatus = "idle"

\* the create page mounts: every state takes its useState initial value
MountCreate ==
    /\ title' = ""
    /\ durationMinutes' = 60
    /\ selectedDays' = WEEKDAYS
    /\ currentMonth' = MonthOf(Today)
    /\ dateRangeStart' = NullDate
    /\ dateRangeEnd' = NullDate
    /\ slotList' = DEFAULT_TIME_SLOTS
    /\ selectedTimeSlots' = <<DEFAULT_TIME_SLOTS[2], DEFAULT_TIME_SLOTS[4]>>
    /\ editingSlotIdx' = NullIdx
    /\ editWheels' = [StartH |-> "09", StartM |-> "00",
                     EndH |-> "11", EndM |-> "00"]
    /\ validationError' = "null"
    /\ mutationStatus' = "idle"

\* the create page unmounts
UnmountCreate ==
    /\ title' = ""
    /\ durationMinutes' = 0
    /\ selectedDays' = {}
    /\ currentMonth' = 0
    /\ dateRangeStart' = NullDate
    /\ dateRangeEnd' = NullDate
    /\ slotList' = <<>>
    /\ selectedTimeSlots' = <<>>
    /\ editingSlotIdx' = NullIdx
    /\ editWheels' = <<>>
    /\ validationError' = "null"
    /\ mutationStatus' = "idle"

\* the create page shows its form and no modal covers it
FormShown == page = "create" /\ isInitialized /\ editingSlotIdx = NullIdx

\* the edit modal is open
ModalShown == page = "create" /\ isInitialized /\ editingSlotIdx # NullIdx

(***************************************************************************)
(* Handlers of the create form: general details                            *)
(***************************************************************************)
\* onChange of the title input
SetTitle(v) ==
    /\ FormShown
    /\ title' = v
    /\ formEvent' = "setTitle"
    /\ UNCHANGED <<durationMinutes, selectedDays, navVars, rangeVars,
                   slotVars, submitVars, backendVars, liffVars>>

\* onChange of the duration input: Number(e.target.value) || 15
ChangeDuration(text) ==
    /\ FormShown
    /\ durationMinutes' = IF Number(text) = 0 THEN 15 ELSE Number(text)
    /\ formEvent' = "changeDuration"
    /\ UNCHANGED <<title, selectedDays, navVars, rangeVars,
                   slotVars, submitVars, backendVars, liffVars>>

\* onClick of a duration preset
ClickDurationPreset(minutes) ==
    /\ FormShown
    /\ durationMinutes' = minutes
    /\ formEvent' = "durationPreset"
    /\ UNCHANGED <<title, selectedDays, navVars, rangeVars,
                   slotVars, submitVars, backendVars, liffVars>>

handleDayPreset(preset) ==
    /\ FormShown
    /\ selectedDays' = IF preset = "weekdays" THEN WEEKDAYS
                       ELSE IF preset = "weekends" THEN WEEKENDS
                       ELSE selectedDays
    /\ formEvent' = "handleDayPreset"
    /\ UNCHANGED <<title, durationMinutes, navVars, rangeVars,
                   slotVars, submitVars, backendVars, liffVars>>

\* selectedDays is only read through includes, so the model keeps the set
\* of its entries
toggleDay(day) ==
    /\ FormShown
    /\ selectedDays' = IF day \in selectedDays THEN selectedDays \ {day}
                       ELSE selectedDays \cup {day}
    /\ formEvent' = "toggleDay"
    /\ UNCHANGED <<title, durationMinutes, navVars, rangeVars,
                   slotVars, submitVars, backendVars, liffVars>>

(***************************************************************************)
(* Handlers of the create form: date range                                 *)
(***************************************************************************)
\* a handleDateClick that takes the second click as the end of the range
\* wherever it lies
handleDateClickNoSwap(day) ==
    /\ FormShown
    /\ IF ~isSameMonth(day, currentMonth)
       THEN UNCHANGED <<dateRangeStart, dateRangeEnd>>
       ELSE IF dateRangeStart = NullDate \/ dateRangeEnd # NullDate
       THEN /\ dateRangeStart' = day
            /\ dateRangeEnd' = NullDate
       ELSE /\ dateRangeEnd' = day
            /\ UNCHANGED dateRangeStart
    /\ formEvent' = "handleDateClick"
    /\ UNCHANGED <<currentMonth, navVars, fieldVars, slotVars, submitVars,
                   backendVars, liffVars>>

handleDateClick(day) ==
    /\ FormShown
    /\ IF ~isSameMonth(day, currentMonth)
       THEN UNCHANGED <<dateRangeStart, dateRangeEnd>>
       ELSE IF dateRangeStart = NullDate \/ dateRangeEnd # NullDate
       THEN /\ dateRangeStart' = day
            /\ dateRangeEnd' = NullDate
       ELSE IF isBefore(day, dateRangeStart)
       THEN /\ dateRangeEnd' = dateRangeStart
            /\ dateRangeStart' = day
       ELSE /\ dateRangeEnd' = day
            /\ UNCHANGED dateRangeStart
    /\ formEvent' = "handleDateClick"
    /\ UNCHANGED <<currentMonth, navVars, fieldVars, slotVars, submitVars,
                   backendVars, liffVars>>

handleDateRangePreset(preset) ==
    /\ FormShown
    /\ dateRangeStart' = Now
    /\ dateRangeEnd' =
           IF preset.weeks # 0
           THEN addDays(addWeeks(Now, preset.weeks), -1)
           ELSE IF preset.months # 0
           THEN addDays(addMonths(Now, preset.months), -1)
           ELSE dateRangeEnd
    /\ formEvent' = "handleDateRangePreset"
    /\ UNCHANGED <<currentMonth, navVars, fieldVars, slotVars, submitVars,
                   backendVars, liffVars>>

\* setCurrentMonth(subMonths(currentMonth, 1))
PreviousMonth ==
    /\ FormShown
    /\ currentMonth > 0
    /\ currentMonth' = currentMonth - 1
    /\ formEvent' = "previousMonth"
    /\ UNCHANGED <<dateRangeStart, dateRangeEnd, navVars, fieldVars,
                   slotVars, submitVars, backendVars, liffVars>>

\* setCurrentMonth(addMonths(currentMonth, 1))
FollowingMonth ==
    /\ FormShown
    /\ currentMonth < MaxMonth
    /\ currentMonth' = currentMonth + 1
    /\ formEvent' = "followingMonth"
    /\ UNCHANGED <<dateRangeStart, dateRangeEnd, navVars, fieldVars,
                   slotVars, submitVars, backendVars, liffVars>>

(***************************************************************************)
(* Handlers of the create form: time slots and the edit modal              *)
(***************************************************************************)
WheelHours == {"11", "13"}
WheelMinutes == {"00", "30"}

\* editing a selected slot into the value of another one leaves its value
\* twice in selectedTimeSlots, so the list can grow without limit: the model
\* stops appending at MaxSelected entries
toggleTimeSlot(slot) ==
    /\ FormShown
    /\ Includes(selectedTimeSlots, slot)
           \/ Len(selectedTimeSlots) < MaxSelected
    /\ selectedTimeSlots' = IF Includes(selectedTimeSlots, slot)
                            THEN Without(selectedTimeSlots, slot)
                            ELSE Append(selectedTimeSlots, slot)
    /\ formEvent' = "toggleTimeSlot"
    /\ UNCHANGED <<slotList, editingSlotIdx, editWheels, navVars, fieldVars,
                   rangeVars, submitVars, backendVars, liffVars>>

\* idx counts from 0, as the index of timeSlots.map
openEditSlot(idx) ==
    /\ FormShown
    /\ editWheels' = SplitSlot(slotList[idx + 1])
    /\ editingSlotIdx' = idx
    /\ formEvent' = "openEditSlot"
    /\ UNCHANGED <<slotList, selectedTimeSlots, navVars, fieldVars,
                   rangeVars, submitVars, backendVars, liffVars>>

\* onHourChange / onMinuteChange of the two TimeDrums
TurnWheel(field, item) ==
    /\ ModalShown
    /\ editWheels' = [editWheels EXCEPT ![field] = item]
    /\ formEvent' = "turnWheel"
    /\ UNCHANGED <<slotList, selectedTimeSlots, editingSlotIdx, navVars,
                   fieldVars, rangeVars, submitVars, backendVars, liffVars>>

\* Cancel, or a click on the backdrop: setEditingSlotIdx(null)
CloseEditSlot ==
    /\ ModalShown
    /\ editingSlotIdx' = NullIdx
    /\ formEvent' = "closeEditSlot"
    /\ UNCHANGED <<slotList, selectedTimeSlots, editWheels, navVars,
                   fieldVars, rangeVars, submitVars, backendVars, liffVars>>

startMins(w) == parseInt(w.StartH) * 60 + parseInt(w.StartM)
endMins(w) == parseInt(w.EndH) * 60 + parseInt(w.EndM)

\* a saveEditSlot whose guard lets start = end through
saveEditSlotAllowingEmpty ==
    /\ page = "create"
    /\ isInitialized
    /\ IF editingSlotIdx = NullIdx \/ startMins(editWheels) > endMins(editWheels)
       THEN UNCHANGED <<slotList, selectedTimeSlots, editingSlotIdx>>
       ELSE LET oldSlot == slotList[editingSlotIdx + 1]
                newSlot == FormatSlot(editWheels)
            IN /\ slotList' = [slotList EXCEPT ![editingSlotIdx + 1] = newSlot]
               /\ selectedTimeSlots' =
                      MapReplace(selectedTimeSlots, oldSlot, newSlot)
               /\ editingSlotIdx' = NullIdx
    /\ formEvent' = "saveEditSlot"
    /\ UNCHANGED <<editWheels, navVars, fieldVars, rangeVars, submitVars,
                   backendVars, liffVars>>

\* saveEditSlot, whether or not the Save button that calls it is disabled
saveEditSlot ==
    /\ page = "create"
    /\ isInitialized
    /\ IF editingSlotIdx = NullIdx
          \/ startMins(editWheels) >= endMins(editWheels)
       THEN UNCHANGED <<slotList, selectedTimeSlots, editingSlotIdx>>
       ELSE LET oldSlot == slotList[editingSlotIdx + 1]
                newSlot == FormatSlot(editWheels)
            IN /\ slotList' = [slotList EXCEPT ![editingSlotIdx + 1] = newSlot]
               /\ selectedTimeSlots' =
                      MapReplace(selectedTimeSlots, oldSlot, newSlot)
               /\ editingSlotIdx' = NullIdx
    /\ formEvent' = "saveEditSlot"
    /\ UNCHANGED <<editWheels, navVars, fieldVars, rangeVars, submitVars,
                   backendVars, liffVars>>

(***************************************************************************)
(* SpecSlots: the time slots of the create form and their edit modal       *)
(***************************************************************************)
InitSlots ==
    /\ page = "create"
    /\ urlParams = [groupId |-> "G1", action |-> "null"]
    /\ homeEffectRan = TRUE
    /\ homeGroupId = "G1"
    /\ groupId = "G1"
    /\ CreateMounted
    /\ inFlight = 0
    /\ sent = 0
    /\ lastRequest = <<>>
    /\ formEvent = "none"
    /\ LiffReady
    /\ BackendIdle

\* the indexes of the slots that are clicked and edited
EditedSlots == {0, 1}

NextSlots ==
    \/ \E i \in EditedSlots : toggleTimeSlot(slotList[i + 1])
    \/ \E i \in EditedSlots : openEditSlot(i)
    \/ \E field \in {"StartH", "EndH"}, item \in WheelHours :
           TurnWheel(field, item)
    \/ \E field \in {"StartM", "EndM"}, item \in WheelMinutes :
           TurnWheel(field, item)
    \/ CloseEditSlot
    \/ saveEditSlot

SpecSlots == InitSlots /\ [][NextSlots]_vars

\* C27: saveEditSlot leaves timeSlots, selectedTimeSlots and editingSlotIdx
\* unchanged when the edited start is not strictly before the edited end;
\* otherwise it replaces exactly the slot at editingSlotIdx, replaces every
\* selected occurrence of the old value by the new one and closes the modal.
C27_SaveEditSlotFrame ==
    [][(formEvent' = "saveEditSlot" /\ editingSlotIdx # NullIdx) =>
          IF startMins(editWheels) >= endMins(editWheels)
          THEN /\ slotList' = slotList
               /\ selectedTimeSlots' = selectedTimeSlots
               /\ editingSlotIdx' = editingSlotIdx
          ELSE /\ Len(slotList') = Len(slotList)
               /\ \A i \in 1..Len(slotList) :
                      slotList'[i] = IF i = editingSlotIdx + 1
                                     THEN FormatSlot(editWheels)
                                     ELSE slotList[i]
               /\ Len(selectedTimeSlots') = Len(selectedTimeSlots)
               /\ \A i \in 1..Len(selectedTimeSlots) :
                      selectedTimeSlots'[i] =
                          IF selectedTimeSlots[i] = slotList[editingSlotIdx + 1]
                          THEN FormatSlot(editWheels)
                          ELSE selectedTimeSlots[i]
               /\ editingSlotIdx' = NullIdx]_vars

\* saveEditSlot was called on an empty range (start = end), on a selected
\* slot, and the modal is still open
C27_EmptyRangeRejected ==
    /\ formEvent = "saveEditSlot"
    /\ editingSlotIdx # NullIdx
    /\ startMins(editWheels) = endMins(editWheels)
    /\ Includes(selectedTimeSlots, slotList[editingSlotIdx + 1])

\* seq holds no value twice
NoDuplicates(seq) ==
    \A i, j \in 1..Len(seq) : seq[i] = seq[j] => i = j

\* C28: after any sequence of toggleTimeSlot, openEditSlot and saveEditSlot
\* the entries of timeSlots are pairwise distinct and selectedTimeSlots
\* holds no value twice.
C28_SlotsDistinct ==
    page = "create" =>
        /\ NoDuplicates(slotList)
        /\ NoDuplicates(selectedTimeSlots)

(***************************************************************************)
(* SpecRange: the date range of the create form, by clicks on the calendar *)
(* grid, month navigation and range presets                                *)
(***************************************************************************)
InitRange == InitSlots

NextRange ==
    \/ \E day \in calendarDays(currentMonth) : handleDateClick(day)
    \/ \E preset \in DATE_RANGE_PRESETS : handleDateRangePreset(preset)
    \/ PreviousMonth
    \/ FollowingMonth

SpecRange == InitRange /\ [][NextRange]_vars

\* a step of handleDateClick that changed the range
RangeClick ==
    /\ formEvent' = "handleDateClick"
    /\ <<dateRangeStart, dateRangeEnd>>' # <<dateRangeStart, dateRangeEnd>>

\* C24: whenever both ends of the range are set, dateRangeStart is not after
\* dateRangeEnd; a click that starts a new range clears dateRangeEnd; a
\* second click sets the end, and when it is earlier than the start the two
\* ends are swapped.
C24_RangeOrdered ==
    /\ [](page = "create" /\ dateRangeStart # NullDate
              /\ dateRangeEnd # NullDate
            => ~isBefore(dateRangeEnd, dateRangeStart))
    /\ [][(RangeClick /\ (dateRangeStart = NullDate
                            \/ dateRangeEnd # NullDate))
            => (dateRangeStart' # NullDate /\ dateRangeEnd' = NullDate)]_vars
    /\ [][(RangeClick /\ dateRangeStart # NullDate
                      /\ dateRangeEnd = NullDate)
            => \/ /\ dateRangeStart' = dateRangeStart
                  /\ dateRangeEnd' # NullDate
                  /\ ~isBefore(dateRangeEnd', dateRangeStart)
               \/ /\ dateRangeEnd' = dateRangeStart
                  /\ isBefore(dateRangeStart', dateRangeStart)]_vars

\* a range of two different days set by clicks in the month after the one
\* the form opened on
C24_RangeClicked ==
    /\ formEvent = "handleDateClick"
    /\ dateRangeStart # NullDate
    /\ dateRangeEnd # NullDate
    /\ isBefore(dateRangeStart, dateRangeEnd)
    /\ isSameMonth(dateRangeEnd, MonthOf(Today) + 1)

(***************************************************************************)
(* The home page and the submission of the create form                     *)
(***************************************************************************)
\* what the bot's link can carry
UrlParamValues == [groupId : {"null", "G1"},
                   action : {"null", "create", "list"}]

\* the effect of HomePageContent, run once isInitialized is true
HomeEffect ==
    /\ page = "home"
    /\ isInitialized
    /\ ~homeEffectRan
    /\ homeEffectRan' = TRUE
    /\ homeGroupId' = urlParams.groupId
    /\ IF urlParams.action = "create"
       THEN /\ page' = "create"          \* router.push("/create")
            /\ groupId' = "null"
            /\ MountCreate
       ELSE UNCHANGED <<page, groupId, fieldVars, rangeVars, slotVars,
                        validationError, mutationStatus>>
    /\ UNCHANGED <<urlParams, inFlight, sent, lastRequest, formEvent,
                   backendVars, liffVars>>

\* router.push(`/create${groupId ? `?groupId=${groupId}` : ""}`)
handleCreateMeeting ==
    /\ page = "home"
    /\ isInitialized
    /\ homeEffectRan
    /\ page' = "create"
    /\ groupId' = homeGroupId
    /\ MountCreate
    /\ UNCHANGED <<urlParams, homeEffectRan, homeGroupId, inFlight, sent,
                   lastRequest, formEvent, backendVars, liffVars>>

\* the dates of the range that fall on a selected day, formatted
selectedDates ==
    LET allDatesInRange == eachDayOfInterval(dateRangeStart, dateRangeEnd)
        kept == SelectSeq(allDatesInRange,
                    LAMBDA d : dayNameMap[getDay(StartOfDay(d)) + 1]
                                   \in selectedDays)
    IN [i \in 1..Len(kept) |-> FormatDate(kept[i])]

timeSlotObjects ==
    [i \in 1..Len(selectedTimeSlots) |->
        [start |-> SlotStart(selectedTimeSlots[i]),
         end |-> SlotEnd(selectedTimeSlots[i])]]

\* the CreateMeetingRequest, without the fields the model does not follow
\* (type, locationMode, location, memberMode, notes)
RequestData ==
    [title |-> Trim(title),
     lineGroupId |-> groupId,
     durationMinutes |-> durationMinutes,
     selectedDates |-> selectedDates,
     timeSlots |-> timeSlotObjects]

\* createMeeting.mutate(data): the POST leaves and the mutation is pending
Mutate(data) ==
    /\ sent' = sent + 1
    /\ inFlight' = inFlight + 1
    /\ mutationStatus' = "pending"
    /\ lastRequest' = data

\* a handleSubmit without the check of the selected time slots
handleSubmitAnySlots ==
    /\ IF \/ Trim(title) = ""
          \/ dateRangeStart = NullDate
          \/ dateRangeEnd = NullDate
          \/ groupId = "null"
       THEN UNCHANGED submitVars
       ELSE IF Len(selectedDates) = 0
       THEN /\ validationError' = "no_dates"
            /\ UNCHANGED <<mutationStatus, inFlight, sent, lastRequest>>
       ELSE /\ validationError' = "null"
            /\ Mutate(RequestData)
    /\ formEvent' = "handleSubmit"
    /\ UNCHANGED <<navVars, fieldVars, rangeVars, slotVars,
                   backendVars, liffVars>>

handleSubmit ==
    /\ IF \/ Trim(title) = ""
          \/ dateRangeStart = NullDate
          \/ dateRangeEnd = NullDate
          \/ groupId = "null"
       THEN UNCHANGED submitVars
       ELSE IF Len(selectedDates) = 0
       THEN /\ validationError' = "no_dates"
            /\ UNCHANGED <<mutationStatus, inFlight, sent, lastRequest>>
       ELSE IF Len(timeSlotObjects) = 0
       THEN /\ validationError' = "no_time_slot"
            /\ UNCHANGED <<mutationStatus, inFlight, sent, lastRequest>>
       ELSE /\ validationError' = "null"
            /\ Mutate(RequestData)
    /\ formEvent' = "handleSubmit"
    /\ UNCHANGED <<navVars, fieldVars, rangeVars, slotVars,
                   backendVars, liffVars>>

\* a submit button that stays enabled while the mutation is pending
SubmitDisabledIgnoringPending ==
    \/ Trim(title) = ""
    \/ dateRangeStart = NullDate
    \/ dateRangeEnd = NullDate
    \/ groupId = "null"

\* the disabled attribute of the submit button
SubmitDisabled ==
    \/ Trim(title) = ""
    \/ dateRangeStart = NullDate
    \/ dateRangeEnd = NullDate
    \/ groupId = "null"
    \/ mutationStatus = "pending"     \* createMeeting.isPending

\* a click on the submit button
ClickSubmit ==
    /\ FormShown
    /\ ~SubmitDisabled
    /\ sent < MaxSent
    /\ handleSubmit

\* the POST is answered 2xx: onSuccess runs router.push("/")
MutationSucceeds ==
    /\ inFlight > 0
    /\ inFlight' = inFlight - 1
    /\ IF page = "create"
       THEN /\ page' = "home"
            /\ urlParams' = [groupId |-> "null", action |-> "null"]
            /\ homeEffectRan' = FALSE
            /\ homeGroupId' = "null"
            /\ groupId' = "null"
            /\ UnmountCreate
            /\ formEvent' = "onSuccess"
       ELSE UNCHANGED <<navVars, fieldVars, rangeVars, slotVars,
                        validationError, mutationStatus, formEvent>>
    /\ UNCHANGED <<sent, lastRequest, backendVars, liffVars>>

\* the POST fails: the form stays, with createMeeting.isError
MutationFails ==
    /\ inFlight > 0
    /\ inFlight' = inFlight - 1
    /\ mutationStatus' = IF page = "create" /\ inFlight = 1 THEN "error"
                         ELSE mutationStatus
    /\ formEvent' = "onError"
    /\ UNCHANGED <<navVars, fieldVars, rangeVars, slotVars, validationError,
                   sent, lastRequest, backendVars, liffVars>>

(***************************************************************************)
(* SpecSubmit: from the link of the bot to the createMeeting mutation      *)
(***************************************************************************)
\* the days clicked on the calendar: Saturday 7 and Sunday 8 November
SubmitClickDays == {StartOfDay(6), StartOfDay(7)}

InitSubmit ==
    /\ page = "home"
    /\ urlParams \in UrlParamValues
    /\ homeEffectRan = FALSE
    /\ homeGroupId = "null"
    /\ groupId = "null"
    /\ CreateUnmounted
    /\ inFlight = 0
    /\ sent = 0
    /\ lastRequest = <<>>
    /\ formEvent = "none"
    /\ LiffReady
    /\ BackendIdle

NextSubmit ==
    \/ HomeEffect
    \/ handleCreateMeeting
    \/ \E v \in Titles : SetTitle(v)
    \/ \E preset \in {"weekdays", "weekends"} : handleDayPreset(preset)
    \/ \E day \in SubmitClickDays : handleDateClick(day)
    \/ \E i \in {2, 4} : toggleTimeSlot(DEFAULT_TIME_SLOTS[i])
    \/ ClickSubmit
    \/ MutationSucceeds
    \/ MutationFails

SpecSubmit == InitSubmit /\ [][NextSubmit]_vars

\* a date of the range falls on a selected day of the week
SomeDateSelected ==
    \E d \in DayOf(dateRangeStart)..DayOf(dateRangeEnd) :
        dayNameMap[(d % DaysPerWeek) + 1] \in selectedDays

\* the title is not blank, both ends of the range are set and groupId is
\* present
SubmitPreconditions ==
    /\ Trim(title) # ""
    /\ dateRangeStart # NullDate
    /\ dateRangeEnd # NullDate
    /\ groupId # "null"

\* C22: handleSubmit issues createMeeting.mutate only when the title is not
\* blank, both ends of the range are set, groupId is present, a date of the
\* range falls on a selected day and a time slot is selected; otherwise no
\* request is sent, and when only the dates or the time slots are missing
\* validationError is set.
C22_SubmitValidated ==
    /\ [][sent' # sent =>
            /\ SubmitPreconditions
            /\ SomeDateSelected
            /\ Len(selectedTimeSlots) > 0]_vars
    /\ [][(/\ formEvent' = "handleSubmit"
           /\ SubmitPreconditions
           /\ ~SomeDateSelected \/ Len(selectedTimeSlots) = 0)
            => (validationError' # "null" /\ sent' = sent)]_vars

\* after a request was sent and failed, a submit without a selected time
\* slot was refused
C22_RefusedAfterSent ==
    /\ formEvent = "handleSubmit"
    /\ sent = 1
    /\ validationError = "no_time_slot"

\* C23: a user who opens the bot's link carrying groupId and action=create
\* is on a create page that has that groupId.
C23_CreateLinkKeepsGroup ==
    (/\ page = "create"
     /\ urlParams.action = "create"
     /\ urlParams.groupId # "null") => groupId = urlParams.groupId

\* C29: at most one POST /meetings request is in flight at a time.
C29_OneRequestInFlight == inFlight <= 1

\* a second request was sent after the first one failed
C29_SecondRequestAfterFirst ==
    /\ sent = 2
    /\ inFlight = 1
    /\ mutationStatus = "pending"

(***************************************************************************)
(* SpecDuration: the duration field of a form opened for a group           *)
(***************************************************************************)
NextDuration ==
    \/ \E text \in DurationTexts : ChangeDuration(text)
    \/ \E minutes \in DURATION_PRESETS : ClickDurationPreset(minutes)
    \/ SetTitle("Lunch")
    \/ handleDateRangePreset([weeks |-> 1, months |-> 0])
    \/ ClickSubmit
    \/ MutationSucceeds
    \/ MutationFails

SpecDuration == InitSlots /\ [][NextDuration]_vars

\* C21: the durationMinutes passed to createMeeting.mutate is a positive
\* number of minutes.
C21_DurationPositive ==
    sent > 0 => lastRequest.durationMinutes > 0

====
